---- MODULE Spec2Model ----
(***************************************************************************)
(* Model of ts-result-type (src/index.ts): the two constructors Ok and Err *)
(* and the eleven members of the object each of them returns.              *)
(*                                                                         *)
(* Every object a constructor returns lives in `heap`; an object is named  *)
(* by its index, so "the identical instance" (toBe) is equality of indexes *)
(* and "observationally equal" is equality of constructor and payload.     *)
(* A method is an operator over (heap, this, arguments) that yields the    *)
(* heap after the call, the returned value and the callbacks it invoked.   *)
(***************************************************************************)
EXTENDS Integers, Sequences, FiniteSets, TLC

MaxVal == 1
MaxHeap == 2

\* Payloads, defaults and the values callbacks return.
Val == 0..MaxVal

\* Room for the instances the two sides of a chain comparison can allocate.
MaxChainHeap == MaxHeap + 4

VARIABLES heap, last
vars == <<heap, last>>

-----------------------------------------------------------------------------
(* Caller-supplied callbacks.                                              *)

\* Plain callbacks (value => value), as tables: v => v, v => v + 1 (wrapping),
\* _ => 0.
ValueFns ==
    { [x \in Val |-> x],
      [x \in Val |-> (x + 1) % (MaxVal + 1)],
      [x \in Val |-> 0] }

\* What a Result-returning callback does for one argument: build Ok(val),
\* build Err(val), or hand back an instance that already exists.
OkOf(v) == [tag |-> "Ok", val |-> v]
ErrOf(v) == [tag |-> "Err", val |-> v]
RefOf(i) == [tag |-> "Ref", val |-> i]

\* Result-returning callbacks over heap h: x => Ok(x), x => Err(x),
\* x => Ok(x + 1), x => x === 0 ? Ok(1) : Err(x), x => x === 0 ? Err(0) : Ok(0)
\* and _ => r for every existing r.
ResultFns(h) ==
    { [k |-> "tab", tab |-> t] : t \in
        { [x \in Val |-> OkOf(x)],
          [x \in Val |-> ErrOf(x)],
          [x \in Val |-> OkOf((x + 1) % (MaxVal + 1))],
          [x \in Val |-> IF x = 0 THEN OkOf(1) ELSE ErrOf(x)],
          [x \in Val |-> IF x = 0 THEN ErrOf(0) ELSE OkOf(0)] }
        \cup { [x \in Val |-> RefOf(i)] : i \in DOMAIN h } }

\* x => f(x).andThen(g)
ThenFn(f, g) == [k |-> "then", f |-> f, g |-> g]

\* One entry of the log of callback invocations of a call.
Call(cb, arg) == [cb |-> cb, arg |-> arg]

-----------------------------------------------------------------------------
(* The constructors.                                                       *)

Returns(h, ret, calls) == [heap |-> h, ret |-> ret, calls |-> calls]

\* Faulty variant: the isErr flag of Ok copied from Err.
OkIsErrTrue(h, value) ==
    Returns(Append(h, [ctor |-> "Ok", payload |-> value,
                       isOk |-> TRUE, isErr |-> TRUE]), Len(h) + 1, <<>>)

Ok(h, value) ==
    Returns(Append(h, [ctor |-> "Ok", payload |-> value,
                       isOk |-> TRUE, isErr |-> FALSE]), Len(h) + 1, <<>>)

Err(h, error) ==
    Returns(Append(h, [ctor |-> "Err", payload |-> error,
                       isOk |-> FALSE, isErr |-> TRUE]), Len(h) + 1, <<>>)

RECURSIVE andThen(_, _, _), Invoke(_, _, _)

\* Invocation of a Result-returning callback fn on x.
Invoke(h, fn, x) ==
    IF fn.k = "tab"
    THEN CASE fn.tab[x].tag = "Ok"  -> Ok(h, fn.tab[x].val)
           [] fn.tab[x].tag = "Err" -> Err(h, fn.tab[x].val)
           [] OTHER                 -> Returns(h, fn.tab[x].val, <<>>)
    ELSE LET a == Invoke(h, fn.f, x)
         IN  andThen(a.heap, a.ret, fn.g)

-----------------------------------------------------------------------------
(* The members of the object Ok(value) returns.                            *)

\* Faulty variant: map wraps the transformed value in the wrong constructor.
Ok_mapAsErr(h, this, fn) ==
    LET value == h[this].payload
        o == Err(h, fn[value])
    IN  Returns(o.heap, o.ret, <<Call("fn", value)>>)

\* Faulty variant: map overwrites the receiver's value instead of building a Result.
Ok_mapInPlace(h, this, fn) ==
    LET value == h[this].payload
    IN  Returns([h EXCEPT ![this].payload = fn[value]], this,
                <<Call("fn", value)>>)

\* Faulty variant: mapErr applies fn to the value, as map does.
Ok_mapErrApplies(h, this, fn) ==
    LET value == h[this].payload
        o == Ok(h, fn[value])
    IN  Returns(o.heap, o.ret, <<Call("fn", value)>>)

\* Faulty variant: andThen falls back to the receiver when the callback's Result is
\* an Err.
Ok_andThenFallsBack(h, this, fn) ==
    LET value == h[this].payload
        c == Invoke(h, fn, value)
    IN  IF c.heap[c.ret].ctor = "Ok"
        THEN Returns(c.heap, c.ret, <<Call("fn", value)>>)
        ELSE Returns(c.heap, this, <<Call("fn", value)>>)

Ok_match(h, this, ok, err) ==
    LET value == h[this].payload
    IN  Returns(h, ok[value], <<Call("ok", value)>>)

Ok_getValueOrDefault(h, this, defaultValue) ==
    Returns(h, h[this].payload, <<>>)

Ok_getValueOrCompute(h, this, computeFn) ==
    Returns(h, h[this].payload, <<>>)

Ok_map(h, this, fn) ==
    LET value == h[this].payload
        o == Ok(h, fn[value])
    IN  Returns(o.heap, o.ret, <<Call("fn", value)>>)

Ok_mapErr(h, this, fn) == Returns(h, this, <<>>)

Ok_and(h, this, result) == Returns(h, result, <<>>)

Ok_andThen(h, this, fn) ==
    LET value == h[this].payload
        c == Invoke(h, fn, value)
    IN  Returns(c.heap, c.ret, <<Call("fn", value)>>)

Ok_or(h, this, result) == Returns(h, this, <<>>)

Ok_orElse(h, this, fn) == Returns(h, this, <<>>)

-----------------------------------------------------------------------------
(* The members of the object Err(error) returns.                           *)

\* Faulty variant: match of Err runs the ok callback.
Err_matchRunsOk(h, this, ok, err) ==
    LET error == h[this].payload
    IN  Returns(h, ok[error], <<Call("ok", error)>>)

\* Faulty variant: getValueOrDefault of Err returns what it contains.
Err_getValueOrDefaultContained(h, this, defaultValue) ==
    Returns(h, h[this].payload, <<>>)

\* Faulty variant: map of Err runs fn and drops what it returns.
Err_mapRunsFn(h, this, fn) ==
    Returns(h, this, <<Call("fn", h[this].payload)>>)

\* Faulty variant: andThen of Err runs fn, as orElse does.
Err_andThenRunsFn(h, this, fn) ==
    LET error == h[this].payload
        c == Invoke(h, fn, error)
    IN  Returns(c.heap, c.ret, <<Call("fn", error)>>)

\* Faulty variant: or of Err returns itself, as and does.
Err_orItself(h, this, result) == Returns(h, this, <<>>)

Err_match(h, this, ok, err) ==
    LET error == h[this].payload
    IN  Returns(h, err[error], <<Call("err", error)>>)

Err_getValueOrDefault(h, this, defaultValue) ==
    Returns(h, defaultValue, <<>>)

Err_getValueOrCompute(h, this, computeFn) ==
    LET error == h[this].payload
    IN  Returns(h, computeFn[error], <<Call("computeFn", error)>>)

Err_map(h, this, fn) == Returns(h, this, <<>>)

Err_mapErr(h, this, fn) ==
    LET error == h[this].payload
        o == Err(h, fn[error])
    IN  Returns(o.heap, o.ret, <<Call("fn", error)>>)

Err_and(h, this, result) == Returns(h, this, <<>>)

Err_andThen(h, this, fn) == Returns(h, this, <<>>)

Err_or(h, this, result) == Returns(h, result, <<>>)

Err_orElse(h, this, fn) ==
    LET error == h[this].payload
        c == Invoke(h, fn, error)
    IN  Returns(c.heap, c.ret, <<Call("fn", error)>>)

-----------------------------------------------------------------------------
(* r.member(...): the member is the one of the object r, so of the         *)
(* constructor that returned r.                                            *)

match(h, r, ok, err) ==
    IF h[r].ctor = "Ok" THEN Ok_match(h, r, ok, err) ELSE Err_match(h, r, ok, err)

getValueOrDefault(h, r, defaultValue) ==
    IF h[r].ctor = "Ok" THEN Ok_getValueOrDefault(h, r, defaultValue)
    ELSE Err_getValueOrDefault(h, r, defaultValue)

getValueOrCompute(h, r, computeFn) ==
    IF h[r].ctor = "Ok" THEN Ok_getValueOrCompute(h, r, computeFn)
    ELSE Err_getValueOrCompute(h, r, computeFn)

map(h, r, fn) ==
    IF h[r].ctor = "Ok" THEN Ok_map(h, r, fn) ELSE Err_map(h, r, fn)

mapErr(h, r, fn) ==
    IF h[r].ctor = "Ok" THEN Ok_mapErr(h, r, fn) ELSE Err_mapErr(h, r, fn)

and(h, r, result) ==
    IF h[r].ctor = "Ok" THEN Ok_and(h, r, result) ELSE Err_and(h, r, result)

andThen(h, r, fn) ==
    IF h[r].ctor = "Ok" THEN Ok_andThen(h, r, fn) ELSE Err_andThen(h, r, fn)

or(h, r, result) ==
    IF h[r].ctor = "Ok" THEN Ok_or(h, r, result) ELSE Err_or(h, r, result)

orElse(h, r, fn) ==
    IF h[r].ctor = "Ok" THEN Ok_orElse(h, r, fn) ELSE Err_orElse(h, r, fn)

-----------------------------------------------------------------------------
(* The host program: one action per call it can make.                      *)

None == <<>>

\* What the host keeps of its last call: the member called, the receiver, the
\* arguments, the heap before the call, what the call returned (other: the
\* second result of a chain comparison) and the callbacks it invoked.
Record(op, recv, a, b, pre, ret, other, calls) ==
    [op |-> op, recv |-> recv, a |-> a, b |-> b, pre |-> pre,
     ret |-> ret, other |-> other, calls |-> calls]

Init ==
    /\ heap = <<>>
    /\ last = Record("none", 0, None, None, <<>>, 0, 0, <<>>)

\* A call whose result is res is taken when the heap has room for it.
Step(op, recv, a, b, res) ==
    /\ Len(res.heap) <= MaxHeap
    /\ heap' = res.heap
    /\ last' = Record(op, recv, a, b, heap, res.ret, 0, res.calls)

NewOk(v) == Step("Ok", 0, v, None, Ok(heap, v))

NewErr(e) == Step("Err", 0, e, None, Err(heap, e))

Match(r, ok, err) == Step("match", r, ok, err, match(heap, r, ok, err))

GetValueOrDefault(r, d) ==
    Step("getValueOrDefault", r, d, None, getValueOrDefault(heap, r, d))

GetValueOrCompute(r, c) ==
    Step("getValueOrCompute", r, c, None, getValueOrCompute(heap, r, c))

Map(r, fn) == Step("map", r, fn, None, map(heap, r, fn))

MapErr(r, fn) == Step("mapErr", r, fn, None, mapErr(heap, r, fn))

And(r, s) == Step("and", r, s, None, and(heap, r, s))

AndThen(r, fn) == Step("andThen", r, fn, None, andThen(heap, r, fn))

Or(r, s) == Step("or", r, s, None, or(heap, r, s))

OrElse(r, fn) == Step("orElse", r, fn, None, orElse(heap, r, fn))

Next ==
    \/ \E v \in Val : NewOk(v)
    \/ \E e \in Val : NewErr(e)
    \/ \E r \in DOMAIN heap : \E ok \in ValueFns, err \in ValueFns : Match(r, ok, err)
    \/ \E r \in DOMAIN heap : \E d \in Val : GetValueOrDefault(r, d)
    \/ \E r \in DOMAIN heap : \E c \in ValueFns : GetValueOrCompute(r, c)
    \/ \E r \in DOMAIN heap : \E fn \in ValueFns : Map(r, fn)
    \/ \E r \in DOMAIN heap : \E fn \in ValueFns : MapErr(r, fn)
    \/ \E r \in DOMAIN heap : \E s \in DOMAIN heap : And(r, s)
    \/ \E r \in DOMAIN heap : \E fn \in ResultFns(heap) : AndThen(r, fn)
    \/ \E r \in DOMAIN heap : \E s \in DOMAIN heap : Or(r, s)
    \/ \E r \in DOMAIN heap : \E fn \in ResultFns(heap) : OrElse(r, fn)

Spec == Init /\ [][Next]_vars

-----------------------------------------------------------------------------
(* The chain comparison: the host builds its Results, then evaluates       *)
(* r.andThen(f).andThen(g) and r.andThen(x => f(x).andThen(g)) in turn.    *)

Chain(r, f, g) ==
    LET a == andThen(heap, r, f)
        b == andThen(a.heap, a.ret, g)
        c == andThen(b.heap, r, ThenFn(f, g))
    IN  /\ Len(heap) + 4 <= MaxChainHeap
        /\ heap' = c.heap
        /\ last' = Record("chain", r, f, g, heap, b.ret, c.ret, <<>>)

NextChain ==
    \/ \E v \in Val : NewOk(v)
    \/ \E e \in Val : NewErr(e)
    \/ \E r \in DOMAIN heap : \E f \in ResultFns(heap), g \in ResultFns(heap) :
          Chain(r, f, g)

SpecChain == Init /\ [][NextChain]_vars

-----------------------------------------------------------------------------
(* Properties.                                                             *)

\* The receiver of the last call, as it was when the call was made.
Recv == last.pre[last.recv]

OnOk(op) == last.op = op /\ Recv.ctor = "Ok"
OnErr(op) == last.op = op /\ Recv.ctor = "Err"

\* Same variant and same payload.
Same(x, y) == x.ctor = y.ctor /\ x.payload = y.payload

\* The instance the last call returned is a new one.
Fresh == last.ret = Len(last.pre) + 1 /\ Len(heap) = Len(last.pre) + 1

\* The last call returned the identical instance i and built nothing.
Identical(i) == last.ret = i /\ heap = last.pre

\* The last call returned exactly the Result the callback last.a builds for
\* x: the existing instance it hands back, or a new one of its kind.
ReturnedWhatFnBuilt(x) ==
    LET d == last.a.tab[x]
    IN  IF d.tag = "Ref"
        THEN Identical(d.val)
        ELSE Fresh /\ heap[last.ret].ctor = d.tag /\ heap[last.ret].payload = d.val

\* C1: and/andThen sequence on the success path and propagate failure
\* untouched: on Ok, and(s) returns the instance s and andThen(f) returns the
\* Result f(v) returned; on Err both return the identical receiver, whatever
\* s and f are.
AndSequencesOnSuccess ==
    /\ OnOk("and") => Identical(last.a)
    /\ OnOk("andThen") => ReturnedWhatFnBuilt(Recv.payload)
    /\ OnErr("and") => Identical(last.recv) /\ Same(heap[last.ret], Recv)
    /\ OnErr("andThen") => Identical(last.recv) /\ Same(heap[last.ret], Recv)

\* An Err receiver went through andThen with a callback that builds an Ok.
AndThenOnErrWitness ==
    /\ OnErr("andThen")
    /\ last.a.tab[Recv.payload].tag = "Ok"
    /\ last.ret = last.recv

\* C2: or/orElse sequence on the failure path and propagate success
\* untouched: on Ok both return the identical receiver, whatever s and f
\* are; on Err, or(s) returns the instance s and orElse(f) returns the Result
\* f(e) returned.
OrSequencesOnFailure ==
    /\ OnOk("or") => Identical(last.recv) /\ Same(heap[last.ret], Recv)
    /\ OnOk("orElse") => Identical(last.recv) /\ Same(heap[last.ret], Recv)
    /\ OnErr("or") => Identical(last.a)
    /\ OnErr("orElse") => ReturnedWhatFnBuilt(Recv.payload)

\* An Err receiver went through or with another instance as the alternate.
OrOnErrWitness ==
    /\ OnErr("or")
    /\ last.a # last.recv
    /\ last.ret = last.a

\* C3: match dispatches on the active variant: Ok(v).match(f, g) returns
\* f(v) and Err(e).match(f, g) returns g(e), whatever the other callback is.
MatchDispatches ==
    /\ OnOk("match") => last.ret = last.a[Recv.payload]
    /\ OnErr("match") => last.ret = last.b[Recv.payload]

\* An Err was matched with callbacks that disagree on its payload.
MatchOnErrWitness ==
    /\ OnErr("match")
    /\ last.a[Recv.payload] # last.b[Recv.payload]
    /\ last.ret = last.b[Recv.payload]

\* C4: map transforms only the success side and keeps the variant:
\* Ok(v).map(f) is a Success instance holding f(v); Err(e).map(f) returns the
\* identical Failure instance, its error untouched.
MapTransformsSuccess ==
    /\ OnOk("map") =>
          /\ last.ret \in DOMAIN heap
          /\ heap[last.ret].ctor = "Ok" /\ heap[last.ret].isOk
          /\ heap[last.ret].payload = last.a[Recv.payload]
    /\ OnErr("map") =>
          /\ last.ret = last.recv
          /\ heap[last.ret].ctor = "Err" /\ heap[last.ret].isErr
          /\ heap[last.ret].payload = Recv.payload

\* An Ok was mapped with a callback that changes its value.
MapOnOkWitness ==
    /\ OnOk("map")
    /\ last.a[Recv.payload] # Recv.payload
    /\ heap[last.ret].payload = last.a[Recv.payload]

\* C5: mapErr is the dual of map: Err(e).mapErr(f) is a Failure instance
\* holding f(e); Ok(v).mapErr(f) returns the identical Success instance,
\* and extracting its value afterwards still yields v.
MapErrTransformsFailure ==
    /\ OnErr("mapErr") =>
          /\ last.ret \in DOMAIN heap
          /\ heap[last.ret].ctor = "Err" /\ heap[last.ret].isErr
          /\ heap[last.ret].payload = last.a[Recv.payload]
    /\ OnOk("mapErr") =>
          /\ last.ret = last.recv
          /\ heap[last.ret].ctor = "Ok" /\ heap[last.ret].isOk
          /\ \A d \in Val :
                getValueOrDefault(heap, last.ret, d).ret = Recv.payload

\* An Ok went through mapErr with a callback that would change its value.
MapErrOnOkWitness ==
    /\ OnOk("mapErr")
    /\ last.a[Recv.payload] # Recv.payload
    /\ last.ret = last.recv

\* C6: extraction with fallback: on Ok, getValueOrDefault(d) and
\* getValueOrCompute(c) return the value; on Err they return d and c(e).
ExtractionWithFallback ==
    /\ OnOk("getValueOrDefault") => last.ret = Recv.payload
    /\ OnOk("getValueOrCompute") => last.ret = Recv.payload
    /\ OnErr("getValueOrDefault") => last.ret = last.a
    /\ OnErr("getValueOrCompute") => last.ret = last.a[Recv.payload]

\* An Err gave the default, which differs from what it contains.
DefaultOnErrWitness ==
    /\ OnErr("getValueOrDefault")
    /\ last.a # Recv.payload
    /\ last.ret = last.a

\* C7: exactly one tag is active on every Result: what Ok built has isOk
\* and not isErr, what Err built has isErr and not isOk, so isErr is the
\* complement of isOk on every instance the constructors and combinators
\* produce.
ExactlyOneTag ==
    \A i \in DOMAIN heap :
        /\ heap[i].isErr = ~heap[i].isOk
        /\ heap[i].ctor = "Ok" => heap[i].isOk /\ ~heap[i].isErr
        /\ heap[i].ctor = "Err" => ~heap[i].isOk /\ heap[i].isErr

\* An Ok and an Err exist, the later one built by a combinator.
BothTagsWitness ==
    /\ last.op \in {"map", "mapErr", "andThen", "orElse"}
    /\ Fresh
    /\ \E i \in DOMAIN heap : heap[i].isOk
    /\ \E i \in DOMAIN heap : heap[i].isErr

\* The callbacks a call on an Ok (onOk) or on an Err (onErr) must invoke.
Invoked(op, onOk, onErr) ==
    /\ OnOk(op) => last.calls = onOk
    /\ OnErr(op) => last.calls = onErr

\* C8: callback discipline: a callback is invoked at most once and only on
\* the branch of the active variant. On Ok, match runs its ok callback and
\* map and andThen run theirs, exactly once, and no other callback runs; on
\* Err, match runs its err callback and mapErr, orElse and getValueOrCompute
\* run theirs, exactly once, and no other callback runs.
CallbackDiscipline ==
    /\ Invoked("match", <<Call("ok", Recv.payload)>>, <<Call("err", Recv.payload)>>)
    /\ Invoked("map", <<Call("fn", Recv.payload)>>, <<>>)
    /\ Invoked("andThen", <<Call("fn", Recv.payload)>>, <<>>)
    /\ Invoked("mapErr", <<>>, <<Call("fn", Recv.payload)>>)
    /\ Invoked("orElse", <<>>, <<Call("fn", Recv.payload)>>)
    /\ Invoked("getValueOrCompute", <<>>, <<Call("computeFn", Recv.payload)>>)

\* An Err went through map: no callback ran.
NoCallbackOnErrWitness ==
    /\ OnErr("map")
    /\ last.calls = <<>>

\* The members that return a Result.
ResultOps == {"map", "mapErr", "and", "andThen", "or", "orElse"}

\* C9: immutability: after any call, every instance that existed before it,
\* receiver or argument, has the variant and payload it had; a call that
\* returns a Result returns a new instance or an existing one, unchanged.
Immutability ==
    /\ Len(last.pre) <= Len(heap)
    /\ \A i \in DOMAIN last.pre : heap[i] = last.pre[i]
    /\ last.op \in ResultOps =>
          \/ last.ret \in DOMAIN last.pre
          \/ Fresh

\* An Ok was mapped to a different value and still holds its own.
MapLeftReceiverWitness ==
    /\ OnOk("map")
    /\ Fresh
    /\ heap[last.ret].payload # Recv.payload
    /\ heap[last.recv] = Recv

\* C10: associativity of chaining: r.andThen(f).andThen(g) has the same
\* variant and payload as r.andThen(x => f(x).andThen(g)), for r Ok or Err
\* and whichever of f(x), g(y) is a Failure.
ChainingAssociative ==
    last.op = "chain" => Same(heap[last.ret], heap[last.other])

\* From an Ok, f built an Ok and g built an Err from it, on both sides.
ChainWitness ==
    /\ OnOk("chain")
    /\ last.a.tab[Recv.payload].tag = "Ok"
    /\ last.b.tab[last.a.tab[Recv.payload].val].tag = "Err"
    /\ last.ret # last.other
    /\ heap[last.ret].ctor = "Err"
    /\ heap[last.other].ctor = "Err"

====
